---------------------------- MODULE Spec2Model ----------------------------
(***************************************************************************)
(* Model of the cleaning engine of src/client/lib/cleaning.ts: the type    *)
(* coercers, quantiles, winsorize, mode and the two-phase cleanData.       *)
(*                                                                         *)
(* Cell values are tagged tuples:                                          *)
(*   <<"null">>, <<"undefined">> (absent key), <<"bool", b>>,               *)
(*   <<"num", n>>   a finite number, n counted in units of 1/Scale,        *)
(*   <<"str", s>>   a text, s the sequence of its characters,              *)
(*   <<"date", d, t>> a Date object (d a day, t a time of day, or           *)
(*                  <<"date", "Invalid", "Invalid">>).                        *)
(* All numbers the engine meets here are dyadic rationals, which IEEE      *)
(* doubles hold exactly, so integer arithmetic on units of 1/Scale is the  *)
(* arithmetic of the code.                                                 *)
(***************************************************************************)
EXTENDS Integers, Sequences, FiniteSets, TLC

VARIABLES
    rows,         \* the input table: a sequence of rows, each a record of cells
    profile,      \* the sequence of column descriptors [name, type]
    pc,           \* where the caller is
    result,       \* what the last call of cleanData returned: [rows, report]
    first,        \* what the first call returned, once a second call was made
    out,          \* stepwise run: the output rows and report so far
    summary,      \* stepwise run: the medians and modes Maps so far
    summed,       \* stepwise run: the columns whose first-loop step ran
    transformed,  \* stepwise run: the columns whose second-loop step ran
    arg,          \* the argument of a call of a statistics function
    ret           \* what that call returned

vars == <<rows, profile, pc, result, first, out, summary, summed, transformed, arg, ret>>

\* ------------------------------------------------------------------ bounds
MaxRows == 3
MaxRows2 == 2
MaxMid == 6
MaxTall == 8
MaxList == 4

\* numbers are counted in units of 1/Scale (two runs of the engine divide by
\* 4, then by 2, twice)
Scale == 4 * 4 * 4

\* winsorize's minimum sample size
MinSamples == 5

\* ------------------------------------------------------------------ values
Null == <<"null">>
Undef == <<"undefined">>
Num(n) == <<"num", n>>
NumI(i) == <<"num", i * Scale>>
Str(s) == <<"str", s>>
Bool(b) == <<"bool", b>>
DateObj(d, t) == <<"date", d, t>>

Tag(v) == v[1]

\* v == null
IsNullish(v) == Tag(v) \in {"null", "undefined"}

\* v === ""
IsEmptyStr(v) == v = Str(<<>>)

Abs(n) == IF n < 0 THEN -n ELSE n

\* ------------------------------------------------------------------ texts
WhiteSpace == {" ", "\t", "\n"}

Digits == <<"0", "1", "2", "3", "4", "5", "6", "7", "8", "9">>

IsDigit(c) == \E i \in 1..10 : Digits[i] = c

DigitVal(c) == (CHOOSE i \in 1..10 : Digits[i] = c) - 1

UpperCase == <<"A", "B", "C", "D", "E", "F", "G", "H", "I", "J", "K", "L", "M",
               "N", "O", "P", "Q", "R", "S", "T", "U", "V", "W", "X", "Y", "Z">>

LowerCase == <<"a", "b", "c", "d", "e", "f", "g", "h", "i", "j", "k", "l", "m",
               "n", "o", "p", "q", "r", "s", "t", "u", "v", "w", "x", "y", "z">>

LowerChar(c) ==
    IF \E i \in 1..26 : UpperCase[i] = c
    THEN LowerCase[CHOOSE i \in 1..26 : UpperCase[i] = c]
    ELSE c

\* String.prototype.toLowerCase
ToLowerCase(s) == [i \in 1..Len(s) |-> LowerChar(s[i])]

RECURSIVE TrimStart(_)
TrimStart(s) ==
    IF s # <<>> /\ Head(s) \in WhiteSpace THEN TrimStart(Tail(s)) ELSE s

RECURSIVE TrimEnd(_)
TrimEnd(s) ==
    IF s # <<>> /\ s[Len(s)] \in WhiteSpace
    THEN TrimEnd(SubSeq(s, 1, Len(s) - 1))
    ELSE s

\* String.prototype.trim
Trim(s) == TrimEnd(TrimStart(s))

\* s.replace(/,/g, "")
RECURSIVE StripCommas(_)
StripCommas(s) ==
    IF s = <<>> THEN <<>>
    ELSE IF Head(s) = "," THEN StripCommas(Tail(s))
    ELSE <<Head(s)>> \o StripCommas(Tail(s))

RECURSIVE NatDigits(_)
NatDigits(n) ==
    IF n < 10 THEN <<Digits[n + 1]>>
    ELSE NatDigits(n \div 10) \o <<Digits[(n % 10) + 1]>>

RECURSIVE StripZeros(_)
StripZeros(s) ==
    IF s # <<>> /\ s[Len(s)] = "0" THEN StripZeros(SubSeq(s, 1, Len(s) - 1)) ELSE s

\* the six decimals of a fraction f/Scale (Scale divides 10^6), trailing zeros cut
FracDigits(f) ==
    LET d == NatDigits((f * 1000000) \div Scale)
        pad == [i \in 1..(6 - Len(d)) |-> "0"]
    IN StripZeros(pad \o d)

\* Number::toString of a finite number of n/Scale
NumToString(n) ==
    LET a == Abs(n)
        whole == NatDigits(a \div Scale)
        frac == IF a % Scale = 0 THEN <<>> ELSE <<".">> \o FracDigits(a % Scale)
    IN (IF n < 0 THEN <<"-">> ELSE <<>>) \o whole \o frac

\* the days and times of day of the modelled calendar
Days == {"2023-01-01", "2024-02-29"}
Times == {"00:00:00", "12:30:00"}
Midnight == "00:00:00"

\* Date.prototype.toISOString of a valid date: 24 characters, the day in
\* [0,10), "T", the time of day in [11,19), ".000Z"
ToISOString(d, t) == <<d, "T", t, ".000Z">>

\* String(v); of a Date only that it starts with the weekday's name matters
StringOf(v) ==
    CASE Tag(v) = "str" -> v[2]
      [] Tag(v) = "num" -> NumToString(v[2])
      [] Tag(v) = "bool" -> IF v[2] THEN <<"t", "r", "u", "e">>
                                    ELSE <<"f", "a", "l", "s", "e">>
      [] Tag(v) = "null" -> <<"n", "u", "l", "l">>
      [] Tag(v) = "undefined" -> <<"u", "n", "d", "e", "f", "i", "n", "e", "d">>
      [] Tag(v) = "date" -> IF v[2] = "Invalid"
                            THEN <<"I", "n", "v", "a", "l", "i", "d", " ", "D", "a", "t", "e">>
                            ELSE <<"S", "u", "n", " ", v[2], " ", v[3]>>

\* ---------------------------------------------------------------- coercers
\* the value of the longest prefix of s that is a run of decimal digits
RECURSIVE DigitRun(_, _)
DigitRun(s, acc) ==
    IF s # <<>> /\ IsDigit(Head(s))
    THEN DigitRun(Tail(s), acc * 10 + DigitVal(Head(s)))
    ELSE acc

\* parseFloat on texts without ".", exponent or "Infinity": leading white
\* space, an optional sign, then the longest run of digits; NaN without one
ParseFloat(s) ==
    LET t == TrimStart(s)
        neg == t # <<>> /\ Head(t) = "-"
        u == IF t # <<>> /\ Head(t) \in {"-", "+"} THEN Tail(t) ELSE t
    IN IF u # <<>> /\ IsDigit(Head(u))
       THEN Num((IF neg THEN -1 ELSE 1) * DigitRun(u, 0) * Scale)
       ELSE <<"nan">>

toNumber(v) ==
    IF Tag(v) = "num" THEN v
    ELSE IF IsNullish(v) \/ IsEmptyStr(v) THEN Null
    ELSE LET n == ParseFloat(StripCommas(StringOf(v)))
         IN IF Tag(n) = "num" THEN n ELSE Null

TrueWords == {<<"t", "r", "u", "e">>, <<"y", "e", "s">>, <<"y">>, <<"1">>}
FalseWords == {<<"f", "a", "l", "s", "e">>, <<"n", "o">>, <<"n">>, <<"0">>}

normalizeBoolean(v) ==
    IF Tag(v) = "bool" THEN v
    ELSE IF IsNullish(v) \/ IsEmptyStr(v) THEN Null
    ELSE LET s == ToLowerCase(Trim(StringOf(v)))
         IN IF s \in TrueWords THEN Bool(TRUE)
            ELSE IF s \in FalseWords THEN Bool(FALSE)
            ELSE Null

InvalidDate == DateObj("Invalid", "Invalid")

\* new Date(v) of a text: the ISO date-only form is midnight UTC, the full
\* ISO form with "Z" is that instant; the other texts of the model are no dates
NewDate(v) ==
    CASE Tag(v) = "str" ->
         LET s == v[2]
         IN IF Len(s) = 1 /\ s[1] \in Days THEN DateObj(s[1], Midnight)
            ELSE IF Len(s) = 4 /\ s[1] \in Days /\ s[2] = "T" /\ s[3] \in Times
                    /\ s[4] = ".000Z"
            THEN DateObj(s[1], s[3])
            ELSE InvalidDate

normalizeDate(v) ==
    IF IsNullish(v) \/ IsEmptyStr(v) THEN Null
    ELSE LET d == IF Tag(v) = "date" THEN v ELSE NewDate(v)
         IN IF d = InvalidDate THEN Null
            ELSE LET iso == ToISOString(d[2], d[3])
                 IN IF iso[3] = Midnight THEN Str(<<iso[1]>>) ELSE Str(iso)

\* ------------------------------------------------------------- statistics
RECURSIVE Insert(_, _)
Insert(x, a) ==
    IF a = <<>> THEN <<x>>
    ELSE IF x < Head(a) THEN <<x>> \o a
    ELSE <<Head(a)>> \o Insert(x, Tail(a))

\* [...arr].sort((x, y) => x - y)
RECURSIVE SortAsc(_)
SortAsc(arr) ==
    IF arr = <<>> THEN <<>> ELSE Insert(Head(arr), SortAsc(Tail(arr)))

\* the inner q of quantiles for p = k/4 on the sorted a (indices from 1 here);
\* a[base + 1] past the end is undefined and the sum NaN, and `||` replaces NaN
\* and 0 by a[base]
q(a, k) ==
    IF Len(a) = 0 THEN 0
    ELSE LET pos4 == (Len(a) - 1) * k
             base == pos4 \div 4
             rest4 == pos4 % 4
         IN IF base + 2 > Len(a) THEN a[base + 1]
            ELSE LET r == a[base + 1] + ((a[base + 2] - a[base + 1]) * rest4) \div 4
                 IN IF r = 0 THEN a[base + 1] ELSE r

quantiles(arr) ==
    LET a == SortAsc(arr)
    IN [q1 |-> q(a, 1), q2 |-> q(a, 2), q3 |-> q(a, 3)]

Clip(v, lo, hi) == IF v < lo THEN lo ELSE IF v > hi THEN hi ELSE v

\* winsorize without its minimum sample size
winsorizeAnySize(arr) ==
    LET qs == quantiles(arr)
        iqr == qs.q3 - qs.q1
        lo == qs.q1 - (3 * iqr) \div 2
        hi == qs.q3 + (3 * iqr) \div 2
    IN [i \in 1..Len(arr) |-> Clip(arr[i], lo, hi)]

winsorize(arr) ==
    IF Len(arr) < MinSamples THEN arr
    ELSE LET qs == quantiles(arr)
             iqr == qs.q3 - qs.q1
             lo == qs.q1 - (3 * iqr) \div 2
             hi == qs.q3 + (3 * iqr) \div 2
         IN [i \in 1..Len(arr) |-> Clip(arr[i], lo, hi)]

\* the entries of the Map built by mode: one <<value, count>> per distinct
\* value, in the order of first insertion
RECURSIVE CountEntries(_, _)
CountEntries(arr, entries) ==
    IF arr = <<>> THEN entries
    ELSE LET v == Head(arr)
             next == IF \E i \in 1..Len(entries) : entries[i][1] = v
                     THEN [i \in 1..Len(entries) |->
                             IF entries[i][1] = v
                             THEN <<v, entries[i][2] + 1>>
                             ELSE entries[i]]
                     ELSE Append(entries, <<v, 1>>)
         IN CountEntries(Tail(arr), next)

\* insertion by count that puts e before the entries of its own count
RECURSIVE InsertBeforeEqual(_, _)
InsertBeforeEqual(e, es) ==
    IF es = <<>> THEN <<e>>
    ELSE IF Head(es)[2] > e[2] THEN <<Head(es)>> \o InsertBeforeEqual(e, Tail(es))
    ELSE <<e>> \o es

\* stable insertion of e into es, sorted by count descending: e goes after
\* every entry whose count is not smaller
RECURSIVE InsertByCount(_, _)
InsertByCount(e, es) ==
    IF es = <<>> THEN <<e>>
    ELSE IF Head(es)[2] >= e[2] THEN <<Head(es)>> \o InsertByCount(e, Tail(es))
    ELSE <<e>> \o es

\* entries.sort((a, b) => b[1] - a[1]), a stable sort
RECURSIVE SortByCount(_)
SortByCount(es) ==
    IF es = <<>> THEN <<>>
    ELSE InsertByCount(es[Len(es)], SortByCount(SubSeq(es, 1, Len(es) - 1)))

mode(arr) ==
    IF Len(arr) = 0 THEN Null
    ELSE SortByCount(CountEntries(arr, <<>>))[1][1]

\* --------------------------------------------------------------- cleanData
\* a Map from column names: a function on the names set so far
EmptyMap == [k \in {} |-> Null]
MapHas(m, k) == k \in DOMAIN m
\* a set that overwrites every entry of the Map
MapSetEvery(m, k, v) == [x \in (DOMAIN m) \cup {k} |-> v]
MapSet(m, k, v) == [x \in (DOMAIN m) \cup {k} |-> IF x = k THEN v ELSE m[x]]

\* seq.filter(v => v !== null) and the like
RECURSIVE Filter(_, _)
Filter(seq, drop) ==
    IF seq = <<>> THEN <<>>
    ELSE IF Head(seq) \in drop THEN Filter(Tail(seq), drop)
    ELSE <<Head(seq)>> \o Filter(Tail(seq), drop)

\* rows.map(rr => rr[name])
Column(rs, name) == [i \in 1..Len(rs) |-> rs[i][name]]

\* the valid numbers of a column, in units of 1/Scale
ValidNums(rs, name) ==
    LET c == Filter([i \in 1..Len(rs) |-> toNumber(rs[i][name])], {Null})
    IN [i \in 1..Len(c) |-> c[i][2]]

ValidBools(rs, name) ==
    Filter([i \in 1..Len(rs) |-> normalizeBoolean(rs[i][name])], {Null})

\* the text of a cell in phase 1: null for null and "", else String(v).trim()
TrimmedOrNull(v) ==
    IF IsNullish(v) \/ IsEmptyStr(v) THEN Null ELSE Str(Trim(StringOf(v)))

ValidTexts(rs, name) ==
    Filter([i \in 1..Len(rs) |-> TrimmedOrNull(rs[i][name])], {Null, Str(<<>>)})

TextTypes == {"categorical", "text"}

\* one iteration of the first loop: the maps after the column col
Summarize(rs, col, maps) ==
    LET name == col.name
    IN IF col.type = "numeric"
       THEN LET nums == ValidNums(rs, name)
            IN IF Len(nums) > 0
               THEN [maps EXCEPT !.medians = MapSet(@, name, quantiles(nums).q2)]
               ELSE maps
       ELSE IF col.type = "boolean"
       THEN LET m == mode(ValidBools(rs, name))
            IN IF m # Null THEN [maps EXCEPT !.modes = MapSet(@, name, m)] ELSE maps
       ELSE IF col.type \in TextTypes
       THEN LET m == mode(ValidTexts(rs, name))
            IN IF ~IsNullish(m) THEN [maps EXCEPT !.modes = MapSet(@, name, m)] ELSE maps
       ELSE maps

\* medians.get(name) ?? 0
MedianOf(maps, name) == IF MapHas(maps.medians, name) THEN maps.medians[name] ELSE 0

\* modes.get(name) ?? dflt
ModeOf(maps, name, dflt) == IF MapHas(maps.modes, name) THEN maps.modes[name] ELSE dflt

Unknown == Str(<<"U", "n", "k", "n", "o", "w", "n">>)

\* n.toFixed(2) as the number of hundredths: ties go away from zero
ToFixed2(n) ==
    LET h == (Abs(n) * 200 + Scale) \div (2 * Scale)
    IN <<"fixed2", IF n < 0 THEN -h ELSE h>>

\* the cells written by the numeric branch
NumericCells(o, name, maps) ==
    LET nums == [i \in 1..Len(o) |-> toNumber(o[i][name])]
        median == MedianOf(maps, name)
        converted == [i \in 1..Len(o) |-> IF nums[i] = Null THEN median ELSE nums[i][2]]
        clipped == winsorize(converted)
    IN [i \in 1..Len(o) |-> Num(clipped[i])]

\* a date cell that takes normalizeDate's answer also when it is null
DateCellOrNull(v) == normalizeDate(v)

DateCell(v) == LET d == normalizeDate(v) IN IF IsNullish(d) THEN v ELSE d

BooleanCell(v, maps, name) ==
    LET b == normalizeBoolean(v)
    IN IF IsNullish(b) THEN ModeOf(maps, name, Bool(FALSE)) ELSE b

TextCell(v, m) ==
    IF IsNullish(v) \/ IsEmptyStr(v) THEN m ELSE Str(Trim(StringOf(v)))

\* report.unshift(line)
Unshift(rep, line) == <<line>> \o rep

\* report.push(line)
Push(rep, line) == Append(rep, line)

\* one iteration of the second loop: the output rows and the report after col
Transform(st, col, maps) ==
    LET name == col.name
        o == st.rows
        put(cells) == [i \in 1..Len(o) |-> [o[i] EXCEPT ![name] = cells[i]]]
    IN IF col.type = "numeric"
       THEN [rows |-> put(NumericCells(o, name, maps)),
             report |-> Push(st.report,
                 <<name, ": converted to number, imputed median ",
                   ToFixed2(MedianOf(maps, name)), ", winsorized outliers">>)]
       ELSE IF col.type = "datetime"
       THEN [rows |-> put([i \in 1..Len(o) |-> DateCell(o[i][name])]),
             report |-> Push(st.report,
                 <<name, ": normalized dates to ISO (YYYY-MM-DD or ISO 8601)">>)]
       ELSE IF col.type = "boolean"
       THEN [rows |-> put([i \in 1..Len(o) |-> BooleanCell(o[i][name], maps, name)]),
             report |-> Push(st.report,
                 <<name, ": normalized booleans and filled missing with mode">>)]
       ELSE IF col.type \in TextTypes
       THEN LET m == ModeOf(maps, name, Unknown)
            IN [rows |-> put([i \in 1..Len(o) |-> TextCell(o[i][name], m)]),
                report |-> Push(st.report,
                    <<name, ": trimmed text and filled missing with '", m, "'">>)]
       ELSE st

\* rows.map((r) => r): the input's own row objects
SameRows(rs) == [rows |-> rs, shared |-> TRUE]

\* rows.map((r) => ({ ...r })): new row objects with the cells of rs; shared
\* tells whether a write to an output row is a write to the input row
CopyRows(rs) == [rows |-> rs, shared |-> FALSE]

RECURSIVE SummarizeAll(_, _, _)
SummarizeAll(rs, cols, maps) ==
    IF cols = <<>> THEN maps
    ELSE SummarizeAll(rs, Tail(cols), Summarize(rs, Head(cols), maps))

RECURSIVE TransformAll(_, _, _)
TransformAll(st, cols, maps) ==
    IF cols = <<>> THEN st
    ELSE TransformAll(Transform(st, Head(cols), maps), Tail(cols), maps)

cleanData(rs, prof) ==
    LET copy == CopyRows(rs)
        maps == SummarizeAll(rs, prof, [medians |-> EmptyMap, modes |-> EmptyMap])
        fin == TransformAll([rows |-> copy.rows, report |-> <<>>], prof, maps)
    IN [rows |-> fin.rows, report |-> fin.report,
        input |-> IF copy.shared THEN fin.rows ELSE rs]

\* ------------------------------------------------------------------ inputs
Keys == {"a", "b"}

Types == {"numeric", "boolean", "datetime", "categorical", "text"}

\* a type the engine does not know
AllTypes == Types \cup {"other"}

Col(n, t) == [name |-> n, type |-> t]

\* the profiles: at most one descriptor per key, in either order
Profiles1 == {<<Col(n, t)>> : n \in Keys, t \in AllTypes}
Profiles2 ==
    {<<Col(n1, t1), Col(n2, t2)>> :
        n1 \in Keys, n2 \in Keys, t1 \in AllTypes, t2 \in AllTypes} \ 
    {p \in {<<Col(n1, t1), Col(n2, t2)>> :
        n1 \in Keys, n2 \in Keys, t1 \in AllTypes, t2 \in AllTypes} :
        p[1].name = p[2].name}

NotADate == Str(<<"n", "o", "t", "-", "a", "-", "d", "a", "t", "e">>)
PassCell == Str(<<" ", "x">>)

\* the raw cells of a column of a one-column profile, by the column's type
Rich(t) ==
    CASE t = "numeric" ->
            {Null, Str(<<>>), NumI(-1), NumI(1), NumI(8),
             Str(<<" ", "-", "1", ",", "0", "x">>), Str(<<"x">>)}
      [] t = "boolean" ->
            {Null, Bool(TRUE), Bool(FALSE), Str(<<"y", "e", "s">>),
             Str(<<" ", "N", "O">>), NumI(1), Str(<<"x">>)}
      [] t \in TextTypes ->
            {Null, Undef, Str(<<>>), Str(<<" ">>), Str(<<" ", "A">>),
             Str(<<"A">>), Str(<<"a">>)}
      [] t = "datetime" ->
            {Null, Str(<<>>), Str(ToISOString("2023-01-01", Midnight)),
             Str(ToISOString("2023-01-01", "12:30:00")), Str(<<"2024-02-29">>),
             NotADate, DateObj("2024-02-29", "12:30:00")}
      [] t = "other" -> {Null, PassCell}
      [] t = "none" -> {PassCell}

\* the raw cells of a column of a two-column profile
Lean(t) ==
    CASE t = "numeric" -> {Null, NumI(-1), NumI(1)}
      [] t = "boolean" -> {Null, Bool(TRUE), Str(<<"n", "o">>)}
      [] t \in TextTypes -> {Str(<<>>), Str(<<" ", "A">>), Str(<<"a">>)}
      [] t = "datetime" -> {Null, Str(ToISOString("2023-01-01", Midnight)), NotADate}
      [] t = "other" -> {Null, PassCell}
      [] t = "none" -> {PassCell}

\* the raw cells of the numeric column of a table of MaxRows+1..MaxMid rows
MidCells == {Null, NumI(-1), NumI(1), NumI(8)}

\* the raw cells of the numeric column of a table of up to MaxTall rows
TallCells == {NumI(-1), NumI(1), NumI(8)}

\* the type the profile gives the key k, "none" when it names no such column
TypeOf(prof, k) ==
    IF \E i \in 1..Len(prof) : prof[i].name = k
    THEN prof[CHOOSE i \in 1..Len(prof) : prof[i].name = k].type
    ELSE "none"

\* the raw cells of a column of the type t in a profile of ncols columns
CellsFor(t, ncols) == IF ncols < 2 THEN Rich(t) ELSE Lean(t)

\* the tables of at most n rows under the profile prof
Tables(prof, n) ==
    UNION {[1..m -> {[a |-> x, b |-> y] :
                        x \in CellsFor(TypeOf(prof, "a"), Len(prof)),
                        y \in CellsFor(TypeOf(prof, "b"), Len(prof))}] :
           m \in 0..n}

TallProfile == <<Col("a", "numeric")>>

TallTables ==
    UNION {[1..m -> {[a |-> x, b |-> PassCell] : x \in MidCells}] :
           m \in (MaxRows + 1)..MaxMid}
    \cup
    UNION {[1..m -> {[a |-> x, b |-> PassCell] : x \in TallCells}] :
           m \in MinSamples..MaxTall}

\* short tables under every profile
ShortInput ==
    \/ /\ profile = <<>>
       /\ rows \in Tables(<<>>, MaxRows)
    \/ /\ profile \in Profiles1
       /\ rows \in Tables(profile, MaxRows)
    \/ /\ profile \in Profiles2
       /\ rows \in Tables(profile, MaxRows2)

\* longer tables of one numeric column
TallInput ==
    /\ profile = TallProfile
    /\ rows \in TallTables

\* the arguments of the direct calls of quantiles and mode
NumberLists == UNION {[1..m -> {-Scale, 0, Scale, 3 * Scale}] : m \in 0..MaxList}
ValueLists ==
    UNION {[1..m -> {Str(<<"A">>), Str(<<"a">>), Bool(TRUE), Bool(FALSE)}] :
           m \in 0..MaxList}

NoResult == [rows |-> <<>>, report |-> <<>>]
NoMaps == [medians |-> EmptyMap, modes |-> EmptyMap]
NoValue == <<"none">>

Idle ==
    /\ out = NoResult
    /\ summary = NoMaps
    /\ summed = {}
    /\ transformed = {}

\* ----------------------------------------------------- the caller of cleanData
Init ==
    /\ \/ /\ ShortInput \/ TallInput
          /\ pc = "start"
          /\ arg = <<>>
       \/ /\ rows = <<>>
          /\ profile = <<>>
          /\ \/ pc = "call quantiles" /\ arg \in NumberLists
             \/ pc = "call mode" /\ arg \in ValueLists
    /\ result = NoResult
    /\ first = NoResult
    /\ ret = NoValue
    /\ Idle

\* const { rows, report } = cleanData(rows, profile)
Clean ==
    /\ pc = "start"
    /\ LET r == cleanData(rows, profile)
       IN /\ result' = [rows |-> r.rows, report |-> r.report]
          /\ rows' = r.input
    /\ pc' = "cleaned"
    /\ UNCHANGED <<profile, first, out, summary, summed, transformed, arg, ret>>

\* cleanData run again on the rows it returned, with the same profile
Reclean ==
    /\ pc = "cleaned"
    /\ LET r == cleanData(result.rows, profile)
       IN /\ result' = [rows |-> r.rows, report |-> r.report]
          /\ first' = [rows |-> r.input, report |-> result.report]
    /\ pc' = "recleaned"
    /\ UNCHANGED <<rows, profile, out, summary, summed, transformed, arg, ret>>

\* quantiles(arg)
CallQuantiles ==
    /\ pc = "call quantiles"
    /\ ret' = quantiles(arg)
    /\ pc' = "quantiles returned"
    /\ UNCHANGED <<rows, profile, result, first, out, summary, summed, transformed, arg>>

\* mode(arg)
CallMode ==
    /\ pc = "call mode"
    /\ ret' = mode(arg)
    /\ pc' = "mode returned"
    /\ UNCHANGED <<rows, profile, result, first, out, summary, summed, transformed, arg>>

Next == Clean \/ Reclean \/ CallQuantiles \/ CallMode

Spec == Init /\ [][Next]_vars

\* ------------------------------------------ the columns taken in any order
\* The two loops of cleanData unrolled into one step per column and loop, the
\* steps of different columns in any order: a column's second-loop step needs
\* only its own first-loop step.
InitPar ==
    /\ ShortInput
    /\ pc = "stepwise"
    /\ result = NoResult
    /\ first = NoResult
    /\ out = [rows |-> CopyRows(rows).rows, report |-> <<>>]
    /\ summary = NoMaps
    /\ summed = {}
    /\ transformed = {}
    /\ arg = <<>>
    /\ ret = NoValue

SummarizeStep(i) ==
    /\ i \in (1..Len(profile)) \ summed
    /\ summary' = Summarize(rows, profile[i], summary)
    /\ summed' = summed \cup {i}
    /\ UNCHANGED <<rows, profile, pc, result, first, out, transformed, arg, ret>>

TransformStep(i) ==
    /\ i \in summed \ transformed
    /\ out' = Transform(out, profile[i], summary)
    /\ transformed' = transformed \cup {i}
    /\ UNCHANGED <<rows, profile, pc, result, first, summary, summed, arg, ret>>

NextPar == \E i \in 1..Len(profile) : SummarizeStep(i) \/ TransformStep(i)

SpecPar == InitPar /\ [][NextPar]_vars

\* ------------------------------------------------------------------ claims
\* the linearly interpolated quantile of the sorted list a at p = k/4, in units
\* of 1/Scale: a[floor(pos)] + (a[floor(pos)+1] - a[floor(pos)]) * frac(pos),
\* pos = (count - 1) * p, the lower value alone at the last index, 0 when empty
Interpolated(a, k) ==
    IF Len(a) = 0 THEN 0
    ELSE LET pos4 == (Len(a) - 1) * k
             lower == pos4 \div 4
         IN IF lower + 1 = Len(a) THEN a[lower + 1]
            ELSE a[lower + 1] + ((a[lower + 2] - a[lower + 1]) * (pos4 % 4)) \div 4

InterpolatedQuantiles(arr) ==
    LET a == SortAsc(arr)
    IN [q1 |-> Interpolated(a, 1), q2 |-> Interpolated(a, 2), q3 |-> Interpolated(a, 3)]

\* C5: quantiles returns, for every list of numbers, the linearly interpolated
\* quantiles at 0.25, 0.5 and 0.75 (0 three times for the empty list), also
\* for lists with negative values and when a quantile is exactly 0.
C5_QuantilesInterpolate ==
    pc = "quantiles returned" => ret = InterpolatedQuantiles(arg)

Occurrences(arr, v) == Cardinality({i \in 1..Len(arr) : arr[i] = v})

FirstIndex(arr, v) == CHOOSE i \in 1..Len(arr) :
    arr[i] = v /\ \A j \in 1..(i - 1) : arr[j] # v

\* v occurs in arr as often as any value does, and earlier than every other
\* value that occurs as often
IsEarliestMostFrequent(arr, v) ==
    /\ \E i \in 1..Len(arr) : arr[i] = v
    /\ \A j \in 1..Len(arr) :
          /\ Occurrences(arr, arr[j]) <= Occurrences(arr, v)
          /\ Occurrences(arr, arr[j]) = Occurrences(arr, v)
                => FirstIndex(arr, v) <= FirstIndex(arr, arr[j])

\* the profile's columns of the types ts, as indices
ColumnsOf(ts) == {c \in 1..Len(profile) : profile[c].type \in ts}

\* C6: mode returns missing for the empty list and otherwise the most frequent
\* value, the earliest-inserted one among several most frequent; so a missing
\* cell of a boolean or text/categorical column with a valid value is filled
\* with the earliest-seen most frequent valid value of the column.
C6_ModeEarliestMostFrequent ==
    /\ pc = "mode returned" =>
          IF Len(arg) = 0 THEN ret = Null ELSE IsEarliestMostFrequent(arg, ret)
    /\ pc = "cleaned" =>
          \A c \in ColumnsOf({"boolean"} \cup TextTypes) : \A i \in 1..Len(rows) :
             LET name == profile[c].name
                 raw == rows[i][name]
                 valid == IF profile[c].type = "boolean"
                          THEN ValidBools(rows, name) ELSE ValidTexts(rows, name)
                 missing == IF profile[c].type = "boolean"
                            THEN normalizeBoolean(raw) = Null
                            ELSE IsNullish(raw) \/ IsEmptyStr(raw)
             IN (missing /\ Len(valid) > 0)
                   => IsEarliestMostFrequent(valid, result.rows[i][name])

\* a call of mode on a list with two values tied for the most occurrences,
\* the later-seen of them last in the list
C6_Witness ==
    /\ pc = "mode returned"
    /\ Len(arg) = 4
    /\ \E v \in {arg[i] : i \in 1..4} :
          /\ v # ret
          /\ v = arg[4]
          /\ Occurrences(arg, v) = Occurrences(arg, ret)

\* twice the bounds q1 - 1.5*IQR and q3 + 1.5*IQR of the interpolated quartiles
\* of the list nums
TwiceLow(nums) ==
    LET qs == InterpolatedQuantiles(nums) IN 2 * qs.q1 - 3 * (qs.q3 - qs.q1)

TwiceHigh(nums) ==
    LET qs == InterpolatedQuantiles(nums) IN 2 * qs.q3 + 3 * (qs.q3 - qs.q1)

\* C1: in a numeric column with at least 5 rows that coerce to a number, every
\* output value lies within [q1 - 1.5*IQR, q3 + 1.5*IQR], q1 and q3 the
\* interpolated quartiles of the column's non-missing coerced values.
C1_OutputWithinFences ==
    pc = "cleaned" =>
       \A c \in ColumnsOf({"numeric"}) :
          LET name == profile[c].name
              nums == ValidNums(rows, name)
          IN Len(nums) >= MinSamples =>
                \A i \in 1..Len(rows) :
                   /\ Tag(result.rows[i][name]) = "num"
                   /\ 2 * result.rows[i][name][2] >= TwiceLow(nums)
                   /\ 2 * result.rows[i][name][2] <= TwiceHigh(nums)

\* C2: after cleanData no cell of a profiled column is null, absent or the
\* empty string, except the datetime cells whose raw value failed to parse;
\* whitespace-only texts and columns absent from a row included.
C2_NoEmptyCell ==
    pc = "cleaned" =>
       \A c \in ColumnsOf(Types) : \A i \in 1..Len(rows) :
          LET name == profile[c].name
              cell == result.rows[i][name]
          IN \/ ~IsNullish(cell) /\ ~IsEmptyStr(cell)
             \/ profile[c].type = "datetime" /\ normalizeDate(rows[i][name]) = Null

\* the text of the report line of a column of the type t
LineOf(t) ==
    CASE t = "numeric" -> ": converted to number, imputed median "
      [] t = "datetime" -> ": normalized dates to ISO (YYYY-MM-DD or ISO 8601)"
      [] t = "boolean" -> ": normalized booleans and filled missing with mode"
      [] t \in TextTypes -> ": trimmed text and filled missing with '"

\* C3 as stated: the report holds one line per column of the profile, the
\* i-th about the i-th column, whatever the columns' types.
C3_OneLinePerColumn ==
    pc = "cleaned" =>
       /\ Len(result.report) = Len(profile)
       /\ \A i \in 1..Len(result.report) : result.report[i][1] = profile[i].name

\* the columns of the profile whose type the engine knows, in profile order
RECURSIVE Supported(_)
Supported(cols) ==
    IF cols = <<>> THEN <<>>
    ELSE IF Head(cols).type \in Types THEN <<Head(cols)>> \o Supported(Tail(cols))
    ELSE Supported(Tail(cols))

\* C3: the report holds exactly one line per column of the profile whose type
\* is numeric, boolean, datetime, categorical or text, in profile order, each
\* the line of its column's name and type; a column of another type has none.
C3_OneLinePerSupportedColumn ==
    pc = "cleaned" =>
       LET cols == Supported(profile)
       IN /\ Len(result.report) = Len(cols)
          /\ \A i \in 1..Len(cols) :
                /\ result.report[i][1] = cols[i].name
                /\ result.report[i][2] = LineOf(cols[i].type)

\* a profile of two columns of different known types, and one of an unknown
\* type before a known one
C3_Witness ==
    /\ pc = "cleaned"
    /\ Len(profile) = 2
    /\ \/ /\ profile[1].type = "text" /\ profile[2].type = "numeric"
          /\ Len(result.report) = 2
       \/ /\ profile[1].type = "other" /\ profile[2].type = "boolean"
          /\ Len(result.report) = 1

\* C10: a numeric cell that coerces to missing is filled with the median of the
\* column's non-missing coerced values, or 0 without any; a table of fewer than
\* 5 rows is not clipped, each cell is its coerced value or the fill value.
C10_FillWithMedianUnclipped ==
    (pc = "cleaned" /\ Len(rows) < MinSamples) =>
       \A c \in ColumnsOf({"numeric"}) : \A i \in 1..Len(rows) :
          LET name == profile[c].name
              n == toNumber(rows[i][name])
          IN result.rows[i][name] =
                IF n = Null
                THEN Num(InterpolatedQuantiles(ValidNums(rows, name)).q2)
                ELSE n

\* what cleanData(rows, profile) recorded in its first loop
Recorded == SummarizeAll(rows, profile, NoMaps)

\* C7: a datetime cell whose raw value normalizeDate cannot parse stays exactly
\* the raw value, one it can parse becomes the canonical string; of the other
\* types no missing cell keeps its raw value: it becomes the column's fill
\* value, or 0, false or "Unknown" when the column has none.
C7_OnlyDatesKeepRaw ==
    pc = "cleaned" =>
       \A c \in ColumnsOf(Types) : \A i \in 1..Len(rows) :
          LET name == profile[c].name
              t == profile[c].type
              raw == rows[i][name]
              cell == result.rows[i][name]
          IN /\ t = "datetime" =>
                   cell = IF normalizeDate(raw) = Null THEN raw ELSE normalizeDate(raw)
             /\ (t = "numeric" /\ toNumber(raw) = Null) =>
                   cell = IF MapHas(Recorded.medians, name)
                          THEN Num(Recorded.medians[name]) ELSE Num(0)
             /\ (t = "boolean" /\ normalizeBoolean(raw) = Null) =>
                   cell = IF MapHas(Recorded.modes, name)
                          THEN Recorded.modes[name] ELSE Bool(FALSE)
             /\ (t \in TextTypes /\ (IsNullish(raw) \/ IsEmptyStr(raw))) =>
                   cell = IF MapHas(Recorded.modes, name)
                          THEN Recorded.modes[name] ELSE Unknown

\* a datetime column with a text that is no date, kept, beside a date that
\* was normalized
C7_Witness ==
    /\ pc = "cleaned"
    /\ profile = <<Col("a", "datetime")>>
    /\ Len(rows) = 3
    /\ rows[1]["a"] = NotADate /\ result.rows[1]["a"] = NotADate
    /\ rows[2]["a"] = Null /\ result.rows[2]["a"] = Null
    /\ rows[3]["a"] = Str(ToISOString("2023-01-01", Midnight))
    /\ result.rows[3]["a"] = Str(<<"2023-01-01">>)

\* C9: a call of cleanData leaves the input rows as they were and returns as
\* many rows, in which every column the profile does not name, or names with
\* a type the engine does not know, holds what the input row holds.
C9_Frame ==
    [][(pc = "start" /\ pc' = "cleaned") =>
          /\ rows' = rows
          /\ Len(result'.rows) = Len(rows)
          /\ \A i \in 1..Len(rows) : \A k \in Keys :
                TypeOf(profile, k) \notin Types => result'.rows[i][k] = rows[i][k]]_vars

\* a table of three rows with a column the profile does not name beside a
\* text column that was rewritten
C9_Witness ==
    /\ pc = "cleaned"
    /\ Len(rows) = 3
    /\ profile = <<Col("b", "text")>>
    /\ \A i \in 1..3 : rows[i]["a"] = PassCell /\ result.rows[i]["a"] = PassCell
    /\ \E i \in 1..3 : result.rows[i]["b"] # rows[i]["b"]

\* the cells of the columns of the types ts, of the rows rs
CellsOf(rs, ts) ==
    [c \in ColumnsOf(ts) |-> [i \in 1..Len(rs) |-> rs[i][profile[c].name]]]

\* C4 as stated: a second run of cleanData on the rows of the first, with the
\* same profile, leaves every numeric cell and every trimmed non-empty
\* text/categorical cell as the first run left it.
C4_SecondRunChangesNothing ==
    pc = "recleaned" =>
       /\ CellsOf(result.rows, {"numeric"}) = CellsOf(first.rows, {"numeric"})
       /\ \A c \in ColumnsOf(TextTypes) : \A i \in 1..Len(rows) :
             ~IsEmptyStr(first.rows[i][profile[c].name])
                => result.rows[i][profile[c].name] = first.rows[i][profile[c].name]

\* C4: a second run of cleanData on the rows of the first, with the same
\* profile, leaves every trimmed non-empty text/categorical cell as the first
\* run left it, and every numeric cell too when the table has fewer than 5
\* rows; with 5 rows or more the second run computes its bounds from the
\* clipped values and may clip again.
C4_SecondRunShortTable ==
    pc = "recleaned" =>
       /\ Len(rows) < MinSamples
             => CellsOf(result.rows, {"numeric"}) = CellsOf(first.rows, {"numeric"})
       /\ \A c \in ColumnsOf(TextTypes) : \A i \in 1..Len(rows) :
             ~IsEmptyStr(first.rows[i][profile[c].name])
                => result.rows[i][profile[c].name] = first.rows[i][profile[c].name]

\* a second run over a numeric column of three rows, one of them filled by the
\* first run, and over a text column whose cell the first run trimmed
C4_Witness ==
    /\ pc = "recleaned"
    /\ \/ /\ profile = <<Col("a", "numeric")>>
          /\ Len(rows) = 3
          /\ rows[1]["a"] = NumI(8) /\ rows[2]["a"] = Null /\ rows[3]["a"] = NumI(1)
          /\ result.rows[2]["a"] = Num((9 * Scale) \div 2)
       \/ /\ profile = <<Col("a", "text")>>
          /\ Len(rows) = 2
          /\ rows[1]["a"] = Str(<<" ", "A">>) /\ rows[2]["a"] = Null
          /\ result.rows[1]["a"] = Str(<<"A">>) /\ result.rows[2]["a"] = Str(<<"A">>)

\* C8: with unique column names, taking the columns' first-loop and
\* second-loop steps in any order gives the output rows of cleanData's own
\* order; until a column's second-loop step runs its cells are the raw ones,
\* and no step of another column changes them afterwards.
C8_AnyOrderSameRows ==
    /\ \A c \in (1..Len(profile)) \ transformed :
          Column(out.rows, profile[c].name) = Column(rows, profile[c].name)
    /\ \A c \in transformed :
          Column(out.rows, profile[c].name)
             = Column(cleanData(rows, profile).rows, profile[c].name)
    /\ transformed = 1..Len(profile) => out.rows = cleanData(rows, profile).rows

\* two columns with different fill values, the second column summarized and
\* transformed before the first
C8_Witness ==
    /\ Len(profile) = 2
    /\ profile[1].type = "boolean" /\ profile[2].type = "text"
    /\ Len(rows) = 2
    /\ summed = {2} /\ transformed = {2}
    /\ rows[1][profile[2].name] = Str(<<" ", "A">>)
    /\ rows[2][profile[2].name] = Str(<<>>)
    /\ out.rows[2][profile[2].name] = Str(<<"A">>)
    /\ rows[2][profile[1].name] = Null

=============================================================================
